---- MODULE Spec2Model ----
(***************************************************************************)
(* Model of app/src/main/cpp/whisper_jni.cpp: the JNI bridge that owns one *)
(* global whisper context (g_ctx) guarded by one mutex (g_mutex) and       *)
(* exposes nativeInit, nativeRelease and nativeProcess.                    *)
(*                                                                         *)
(* Every native call is executed by a thread in steps; the program counter *)
(* pc[t] names the next statement group of the source the thread executes. *)
(* The arguments of a call are first read after the lock_guard has been    *)
(* constructed, so they are drawn when the body starts.                    *)
(***************************************************************************)
EXTENDS Integers, Sequences, FiniteSets, TLC

\* ------------------------------------------------------------- bounds
NumThreads == 2
MaxCtx == 2
MaxLen == 2
MaxSegs == 2

Threads == 1..NumThreads
CtxIds == 1..MaxCtx

\* ------------------------------------------------------------- values
\* A jstring handed to nativeInit: null, or a string whose UTF-8 bytes the
\* runtime can (utfOk) or cannot hand out.
NullJString == [null |-> TRUE, utfOk |-> FALSE, chars |-> ""]
ValidModels == {"model_a.bin", "model_b.bin"}
PathStrings == ValidModels \cup {"", "missing.bin"}
JStrings ==
    {NullJString}
    \cup {[null |-> FALSE, utfOk |-> TRUE, chars |-> s] : s \in PathStrings}
    \cup {[null |-> FALSE, utfOk |-> FALSE, chars |-> "model_a.bin"]}

\* jshort samples and the jshortArray handed to nativeProcess.
Samples == {-32768, 32767}
SeqsUpTo(S, n) == UNION {[1..k -> S] : k \in 0..n}
NullArray == [null |-> TRUE, a |-> <<>>]
JArrays == {NullArray} \cup {[null |-> FALSE, a |-> s] : s \in SeqsUpTo(Samples, MaxLen)}
Lengths == (-1)..(MaxLen + 1)

\* A const char* returned by whisper_full_get_segment_text.
NullText == [null |-> TRUE, s |-> <<>>]
Text(s) == [null |-> FALSE, s |-> s]
Texts == {NullText, Text(<<>>), Text(<<"a">>), Text(<<"b">>)}
SegLists == SeqsUpTo(Texts, MaxSegs)

\* std::thread::hardware_concurrency() is an unsigned 32-bit value; it is kept
\* as its top bit and its low 31 bits.
Hw(top, low) == [top |-> top, low |-> low]
HwValues == {Hw(0, 0), Hw(0, 1), Hw(0, 2), Hw(0, 3), Hw(0, 4), Hw(0, 16),
             Hw(1, 0), Hw(1, 2147483647)}

\* A float that is an integer scaled by a power of two: m * 2^e.
Float(m, e) == [m |-> m, e |-> e]

NoRet == [kind |-> "none", b |-> FALSE, s |-> <<>>]
BoolRet(b) == [kind |-> "bool", b |-> b, s |-> <<>>]
StrRet(s) == [kind |-> "str", b |-> FALSE, s |-> s]
VoidRet == [kind |-> "void", b |-> FALSE, s |-> <<>>]

NoCall == [op |-> "none", path |-> NullJString, ok |-> FALSE, made |-> 0,
           beforeOp |-> "none", beforeOk |-> FALSE]

\* The inputs of the concurrent specification: every kind of model path, and
\* one representative of each way nativeProcess can go.
ConcIn ==
    [paths |-> JStrings,
     arrays |-> {NullArray, [null |-> FALSE, a |-> <<32767>>]},
     lengths |-> {0, 1, 2},
     hws |-> {Hw(0, 0), Hw(0, 16)},
     segLists |-> {<<>>, <<Text(<<"a">>)>>, <<Text(<<>>), Text(<<"b">>)>>}]

\* The inputs of the single-caller specification: every array, length,
\* hardware concurrency and segment list within the bounds.
SeqIn ==
    [paths |-> {NullJString, [null |-> FALSE, utfOk |-> TRUE, chars |-> "model_a.bin"]},
     arrays |-> JArrays,
     lengths |-> Lengths,
     hws |-> HwValues,
     segLists |-> SegLists]

\* ------------------------------------------------------------- state
VARIABLES
    g_ctx,        \* the stored handle: 0 is nullptr, otherwise a context id
    g_mutex,      \* 0 when free, otherwise the thread holding it
    ctxState,     \* per context id: "unborn", "live" or "freed"
    inFull,       \* number of whisper_full invocations in progress
    crashed,      \* the process was killed by an invalid memory access
    badFree,      \* whisper_free was called with a null or non-live handle
    prev,         \* summary of the last call that returned
    pc,           \* per thread: next statement group
    op,           \* per thread: the native function being executed
    jModelPath,   \* per thread: argument of nativeInit
    jPcm,         \* per thread: argument of nativeProcess
    length,       \* per thread: argument of nativeProcess
    pcm,          \* per thread: the std::vector<float> of nativeProcess
    elems,        \* per thread: "none", "held", "released" (array elements)
    nRead,        \* per thread: number of buf[] elements read by the copy loop
    threads,      \* per thread: result of choose_num_threads(), 0 before
    hwSeen,       \* per thread: what hardware_concurrency() returned
    usedCtx,      \* per thread: handle passed to whisper_full, 0 before
    fullCalled,   \* per thread: whisper_full was invoked in this call
    fullRet,      \* per thread: what whisper_full returned, 0 before
    segs,         \* per thread: segment texts the engine handed out
    made,         \* per thread: context created by this call, 0 if none
    entryCtx,     \* per thread: g_ctx as found when the lock was taken
    ret           \* per thread: value returned by the call

globals == <<g_ctx, g_mutex, ctxState, inFull, crashed, badFree, prev>>
args == <<jModelPath, jPcm, length>>
locals == <<pcm, elems, nRead, threads, hwSeen, usedCtx, fullCalled, fullRet,
           segs, made, entryCtx>>
vars == <<globals, pc, op, args, locals, ret>>

TypeOK ==
    /\ g_ctx \in 0..MaxCtx
    /\ g_mutex \in 0..NumThreads
    /\ ctxState \in [CtxIds -> {"unborn", "live", "freed"}]
    /\ inFull \in 0..NumThreads
    /\ crashed \in BOOLEAN
    /\ badFree \in BOOLEAN
    /\ pc \in [Threads -> STRING]
    /\ op \in [Threads -> {"none", "init", "process", "release"}]
    /\ jModelPath \in [Threads -> JStrings]
    /\ jPcm \in [Threads -> JArrays]
    /\ length \in [Threads -> Lengths]

Init ==
    /\ g_ctx = 0
    /\ g_mutex = 0
    /\ ctxState = [c \in CtxIds |-> "unborn"]
    /\ inFull = 0
    /\ crashed = FALSE
    /\ badFree = FALSE
    /\ prev = NoCall
    /\ pc = [t \in Threads |-> "idle"]
    /\ op = [t \in Threads |-> "none"]
    /\ jModelPath = [t \in Threads |-> NullJString]
    /\ jPcm = [t \in Threads |-> NullArray]
    /\ length = [t \in Threads |-> 0]
    /\ pcm = [t \in Threads |-> <<>>]
    /\ elems = [t \in Threads |-> "none"]
    /\ nRead = [t \in Threads |-> 0]
    /\ threads = [t \in Threads |-> 0]
    /\ hwSeen = [t \in Threads |-> Hw(0, 0)]
    /\ usedCtx = [t \in Threads |-> 0]
    /\ fullCalled = [t \in Threads |-> FALSE]
    /\ fullRet = [t \in Threads |-> 0]
    /\ segs = [t \in Threads |-> <<>>]
    /\ made = [t \in Threads |-> 0]
    /\ entryCtx = [t \in Threads |-> 0]
    /\ ret = [t \in Threads |-> NoRet]

\* ------------------------------------------------------------- helpers
\* jstring -> std::string (UTF-8): empty for a null jstring and when
\* GetStringUTFChars returns null.
jstring_to_utf8(js) ==
    IF js.null THEN ""
    ELSE IF ~js.utfOk THEN ""
    ELSE js.chars

\* whisper_init_from_file succeeds exactly on the paths that hold a model.
ModelLoads(modelPath) == modelPath \in ValidModels

\* static_cast<int>(hw) of an unsigned 32-bit value (two's complement).
CastToInt(hw) == IF hw.top = 1 THEN hw.low - 2147483647 - 1 ELSE hw.low

choose_num_threads(hw0) ==
    LET hw == IF hw0.top = 0 /\ hw0.low = 0 THEN Hw(0, 2) ELSE hw0
        t0 == CastToInt(hw)
        t1 == IF t0 < 2 THEN 2 ELSE t0
    IN  IF t1 > 4 THEN 4 ELSE t1

\* buf[i] / 32768.0f: the jshort is converted to float and divided by 2^15.
ShortToFloat(s) == Float(s, 0)
DivBy32768(f) == Float(f.m, f.e - 15)
\* Mutant: the sample is converted but not scaled.
ConvertSampleUnscaled(s) == ShortToFloat(s)
ConvertSample(s) == DivBy32768(ShortToFloat(s))

\* The vectors the copy loop can produce: element i comes from a[i] when the
\* array has it, and from whatever lies behind the array otherwise.
CopiedVectors(a, n) ==
    {f \in [1..n -> {ConvertSample(s) : s \in Samples}] :
        \A i \in 1..n : i <= Len(a) => f[i] = ConvertSample(a[i])}

\* The segment loop: oss after segments i..Len(ss) have been visited
\* (i is 1-based, so the source's i > 0 is i > 1 here).
RECURSIVE CollectSegments(_, _, _)
CollectSegments(ss, i, oss) ==
    IF i > Len(ss) THEN oss
    ELSE LET text == ss[i] IN
         IF ~text.null /\ text.s # <<>>
         THEN CollectSegments(ss, i + 1,
                  (IF i > 1 THEN oss \o <<" ">> ELSE oss) \o text.s)
         ELSE CollectSegments(ss, i + 1, oss)

\* whisper_free(c): the context states afterwards, and whether the call was
\* made with a handle that is null or not live (already freed).
WhisperFree(c) == [x \in CtxIds |-> IF x = c THEN "freed" ELSE ctxState[x]]
BadFree(c) == c \notin {x \in CtxIds : ctxState[x] = "live"}

Unborn == {c \in CtxIds : ctxState[c] = "unborn"}
Live == {c \in CtxIds : ctxState[c] = "live"}
FreshCtx == CHOOSE c \in Unborn : \A d \in Unborn : c <= d

\* std::lock_guard<std::mutex> lock(g_mutex) can be constructed.
MutexIgnored == TRUE
MutexFree == g_mutex = 0

\* return r: the value is fixed while the lock_guard is still alive.
Return(t, r) ==
    /\ ret' = [ret EXCEPT ![t] = r]
    /\ pc' = [pc EXCEPT ![t] = "ret"]

Goto(t, label) ==
    /\ pc' = [pc EXCEPT ![t] = label]
    /\ ret' = ret

\* ------------------------------------------------------------- calls
\* A managed thread calls one of the three native functions.
Call(t, o) ==
    /\ ~crashed
    /\ pc[t] = "idle"
    /\ o = "init" =>
         Cardinality(Unborn) > Cardinality({u \in Threads : op[u] = "init"})
    /\ op' = [op EXCEPT ![t] = o]
    /\ pc' = [pc EXCEPT ![t] = "lock"]
    /\ UNCHANGED <<globals, args, locals, ret>>

\* ------------------------------------------------------------- nativeInit
InitLock(t, In) ==
    /\ ~crashed
    /\ pc[t] = "lock" /\ op[t] = "init"
    /\ MutexFree
    /\ g_mutex' = t
    /\ \E js \in In.paths : jModelPath' = [jModelPath EXCEPT ![t] = js]
    /\ entryCtx' = [entryCtx EXCEPT ![t] = g_ctx]
    /\ Goto(t, "i_free")
    /\ UNCHANGED <<g_ctx, ctxState, inFull, crashed, badFree, prev, op, jPcm, length,
                   pcm, elems, nRead, threads, hwSeen, usedCtx, fullCalled, fullRet, segs, made>>

\* Mutant: the previous context is dropped without being freed.
InitFreeOldLeak(t) ==
    /\ ~crashed
    /\ pc[t] = "i_free"
    /\ g_ctx' = 0
    /\ ctxState' = ctxState
    /\ Goto(t, "i_null")
    /\ UNCHANGED <<g_mutex, inFull, crashed, badFree, prev, op, args, locals>>

\* Mutant: the arguments are looked at before the previous context is freed.
InitFreeOldUnlessNull(t) ==
    /\ ~crashed
    /\ pc[t] = "i_free"
    /\ IF g_ctx # 0 /\ ~jModelPath[t].null
       THEN /\ ctxState' = WhisperFree(g_ctx)
            /\ badFree' = (badFree \/ BadFree(g_ctx))
            /\ g_ctx' = 0
       ELSE UNCHANGED <<g_ctx, ctxState, badFree>>
    /\ Goto(t, "i_null")
    /\ UNCHANGED <<g_mutex, inFull, crashed, prev, op, args, locals>>

\* if (g_ctx) { whisper_free(g_ctx); g_ctx = nullptr; }
InitFreeOld(t) ==
    /\ ~crashed
    /\ pc[t] = "i_free"
    /\ IF g_ctx # 0
       THEN /\ ctxState' = WhisperFree(g_ctx)
            /\ badFree' = (badFree \/ BadFree(g_ctx))
            /\ g_ctx' = 0
       ELSE UNCHANGED <<g_ctx, ctxState, badFree>>
    /\ Goto(t, "i_null")
    /\ UNCHANGED <<g_mutex, inFull, crashed, prev, op, args, locals>>

\* if (!jModelPath) return JNI_FALSE;
InitCheckNull(t) ==
    /\ ~crashed
    /\ pc[t] = "i_null"
    /\ IF jModelPath[t].null
       THEN Return(t, BoolRet(FALSE))
       ELSE Goto(t, "i_path")
    /\ UNCHANGED <<globals, op, args, locals>>

\* modelPath = jstring_to_utf8(...); if (modelPath.empty()) return JNI_FALSE;
InitCheckEmpty(t) ==
    /\ ~crashed
    /\ pc[t] = "i_path"
    /\ IF jstring_to_utf8(jModelPath[t]) = ""
       THEN Return(t, BoolRet(FALSE))
       ELSE Goto(t, "i_load")
    /\ UNCHANGED <<globals, op, args, locals>>

\* Mutant: a call that found a context installed is refused.
InitLoadRejectsReinit(t) ==
    /\ ~crashed
    /\ pc[t] = "i_load"
    /\ IF ModelLoads(jstring_to_utf8(jModelPath[t])) /\ entryCtx[t] = 0
       THEN /\ g_ctx' = FreshCtx
            /\ ctxState' = [ctxState EXCEPT ![FreshCtx] = "live"]
            /\ made' = [made EXCEPT ![t] = FreshCtx]
            /\ Return(t, BoolRet(TRUE))
       ELSE /\ g_ctx' = 0
            /\ UNCHANGED <<ctxState, made>>
            /\ Return(t, BoolRet(FALSE))
    /\ UNCHANGED <<g_mutex, inFull, crashed, badFree, prev, op, args,
                   pcm, elems, nRead, threads, hwSeen, usedCtx, fullCalled, fullRet, segs, entryCtx>>

\* g_ctx = whisper_init_from_file(...); if (!g_ctx) return JNI_FALSE;
\* return JNI_TRUE;
InitLoad(t) ==
    /\ ~crashed
    /\ pc[t] = "i_load"
    /\ IF ModelLoads(jstring_to_utf8(jModelPath[t]))
       THEN /\ g_ctx' = FreshCtx
            /\ ctxState' = [ctxState EXCEPT ![FreshCtx] = "live"]
            /\ made' = [made EXCEPT ![t] = FreshCtx]
            /\ Return(t, BoolRet(TRUE))
       ELSE /\ g_ctx' = 0
            /\ UNCHANGED <<ctxState, made>>
            /\ Return(t, BoolRet(FALSE))
    /\ UNCHANGED <<g_mutex, inFull, crashed, badFree, prev, op, args,
                   pcm, elems, nRead, threads, hwSeen, usedCtx, fullCalled, fullRet, segs, entryCtx>>

\* ------------------------------------------------------------- nativeRelease
\* Mutant: nativeRelease runs without taking the lock.
ReleaseLockNoGuard(t) ==
    /\ ~crashed
    /\ pc[t] = "lock" /\ op[t] = "release"
    /\ entryCtx' = [entryCtx EXCEPT ![t] = g_ctx]
    /\ Goto(t, "r_free")
    /\ UNCHANGED <<globals, op, args,
                   pcm, elems, nRead, threads, hwSeen, usedCtx, fullCalled, fullRet, segs, made>>

ReleaseLock(t) ==
    /\ ~crashed
    /\ pc[t] = "lock" /\ op[t] = "release"
    /\ MutexFree
    /\ g_mutex' = t
    /\ entryCtx' = [entryCtx EXCEPT ![t] = g_ctx]
    /\ Goto(t, "r_free")
    /\ UNCHANGED <<g_ctx, ctxState, inFull, crashed, badFree, prev, op, args,
                   pcm, elems, nRead, threads, hwSeen, usedCtx, fullCalled, fullRet, segs, made>>

\* Mutant: the stored handle is cleared but the context is not freed.
ReleaseFreeLeak(t) ==
    /\ ~crashed
    /\ pc[t] = "r_free"
    /\ g_ctx' = 0
    /\ ctxState' = ctxState
    /\ Return(t, VoidRet)
    /\ UNCHANGED <<g_mutex, inFull, crashed, badFree, prev, op, args, locals>>

\* Mutant: whisper_free is called without looking at the handle first.
ReleaseFreeUnguarded(t) ==
    /\ ~crashed
    /\ pc[t] = "r_free"
    /\ ctxState' = WhisperFree(g_ctx)
    /\ badFree' = (badFree \/ BadFree(g_ctx))
    /\ g_ctx' = 0
    /\ Return(t, VoidRet)
    /\ UNCHANGED <<g_mutex, inFull, crashed, prev, op, args, locals>>

\* Mutant: the context is freed but the stored handle is kept.
ReleaseFreeKeepHandle(t) ==
    /\ ~crashed
    /\ pc[t] = "r_free"
    /\ IF g_ctx # 0
       THEN /\ ctxState' = WhisperFree(g_ctx)
            /\ badFree' = (badFree \/ BadFree(g_ctx))
            /\ g_ctx' = g_ctx
       ELSE UNCHANGED <<g_ctx, ctxState, badFree>>
    /\ Return(t, VoidRet)
    /\ UNCHANGED <<g_mutex, inFull, crashed, prev, op, args, locals>>

\* if (g_ctx) { whisper_free(g_ctx); g_ctx = nullptr; }
ReleaseFree(t) ==
    /\ ~crashed
    /\ pc[t] = "r_free"
    /\ IF g_ctx # 0
       THEN /\ ctxState' = WhisperFree(g_ctx)
            /\ badFree' = (badFree \/ BadFree(g_ctx))
            /\ g_ctx' = 0
       ELSE UNCHANGED <<g_ctx, ctxState, badFree>>
    /\ Return(t, VoidRet)
    /\ UNCHANGED <<g_mutex, inFull, crashed, prev, op, args, locals>>

\* ------------------------------------------------------------- nativeProcess
ProcessLock(t, In) ==
    /\ ~crashed
    /\ pc[t] = "lock" /\ op[t] = "process"
    /\ MutexFree
    /\ g_mutex' = t
    /\ \E arr \in In.arrays : jPcm' = [jPcm EXCEPT ![t] = arr]
    /\ \E n \in In.lengths : length' = [length EXCEPT ![t] = n]
    /\ entryCtx' = [entryCtx EXCEPT ![t] = g_ctx]
    /\ Goto(t, "p_ctx")
    /\ UNCHANGED <<g_ctx, ctxState, inFull, crashed, badFree, prev, op, jModelPath,
                   pcm, elems, nRead, threads, hwSeen, usedCtx, fullCalled, fullRet, segs, made>>

\* if (!g_ctx) return env->NewStringUTF("");
ProcessCheckCtx(t) ==
    /\ ~crashed
    /\ pc[t] = "p_ctx"
    /\ IF g_ctx = 0
       THEN Return(t, StrRet(<<>>))
       ELSE Goto(t, "p_args")
    /\ UNCHANGED <<globals, op, args, locals>>

\* Mutant: a length of 0 is let through.
ProcessCheckArgsOffByOne(t) ==
    /\ ~crashed
    /\ pc[t] = "p_args"
    /\ IF jPcm[t].null \/ length[t] < 0
       THEN Return(t, StrRet(<<>>))
       ELSE Goto(t, "p_get")
    /\ UNCHANGED <<globals, op, args, locals>>

\* if (!jPcm || length <= 0) return env->NewStringUTF("");
ProcessCheckArgs(t) ==
    /\ ~crashed
    /\ pc[t] = "p_args"
    /\ IF jPcm[t].null \/ length[t] <= 0
       THEN Return(t, StrRet(<<>>))
       ELSE Goto(t, "p_get")
    /\ UNCHANGED <<globals, op, args, locals>>

\* std::vector<float> pcm(n_samples); buf = GetShortArrayElements(...);
\* if (!buf) return env->NewStringUTF("");
ProcessGetElements(t) ==
    /\ ~crashed
    /\ pc[t] = "p_get"
    /\ pcm' = [pcm EXCEPT ![t] = [i \in 1..length[t] |-> Float(0, 0)]]
    /\ \E got \in BOOLEAN :
         IF got
         THEN /\ elems' = [elems EXCEPT ![t] = "held"]
              /\ Goto(t, "p_copy")
         ELSE /\ elems' = elems
              /\ Return(t, StrRet(<<>>))
    /\ UNCHANGED <<globals, op, args,
                   nRead, threads, hwSeen, usedCtx, fullCalled, fullRet, segs, made, entryCtx>>

\* for (i = 0; i < n_samples; ++i) pcm[i] = buf[i] / 32768.0f;
\* Reading buf[i] behind the end of the array is undefined: the loop reads
\* whatever lies there, or the access faults (ProcessCopyFault).
ProcessCopy(t) ==
    /\ ~crashed
    /\ pc[t] = "p_copy"
    /\ \E f \in CopiedVectors(jPcm[t].a, length[t]) :
         pcm' = [pcm EXCEPT ![t] = f]
    /\ nRead' = [nRead EXCEPT ![t] = length[t]]
    /\ Goto(t, "p_release")
    /\ UNCHANGED <<globals, op, args,
                   elems, threads, hwSeen, usedCtx, fullCalled, fullRet, segs, made, entryCtx>>

ProcessCopyFault(t) ==
    /\ ~crashed
    /\ pc[t] = "p_copy"
    /\ length[t] > Len(jPcm[t].a)
    /\ \E k \in (Len(jPcm[t].a) + 1)..length[t] :
         nRead' = [nRead EXCEPT ![t] = k]
    /\ crashed' = TRUE
    /\ UNCHANGED <<g_ctx, g_mutex, ctxState, inFull, badFree, prev, pc, op, args, ret,
                   pcm, elems, threads, hwSeen, usedCtx, fullCalled, fullRet, segs, made, entryCtx>>

\* Mutant: the array elements are not released.
ProcessReleaseElementsSkipped(t) ==
    /\ ~crashed
    /\ pc[t] = "p_release"
    /\ elems' = elems
    /\ Goto(t, "p_params")
    /\ UNCHANGED <<globals, op, args,
                   pcm, nRead, threads, hwSeen, usedCtx, fullCalled, fullRet, segs, made, entryCtx>>

\* env->ReleaseShortArrayElements(jPcm, buf, JNI_ABORT);
ProcessReleaseElements(t) ==
    /\ ~crashed
    /\ pc[t] = "p_release"
    /\ elems' = [elems EXCEPT ![t] = "released"]
    /\ Goto(t, "p_params")
    /\ UNCHANGED <<globals, op, args,
                   pcm, nRead, threads, hwSeen, usedCtx, fullCalled, fullRet, segs, made, entryCtx>>

\* wparams = whisper_full_default_params(...); ...
\* wparams.n_threads = choose_num_threads();
ProcessParams(t, In) ==
    /\ ~crashed
    /\ pc[t] = "p_params"
    /\ \E hw \in In.hws :
         /\ hwSeen' = [hwSeen EXCEPT ![t] = hw]
         /\ threads' = [threads EXCEPT ![t] = choose_num_threads(hw)]
    /\ Goto(t, "p_full")
    /\ UNCHANGED <<globals, op, args,
                   pcm, elems, nRead, usedCtx, fullCalled, fullRet, segs, made, entryCtx>>

\* whisper_full(g_ctx, wparams, pcm.data(), n_samples) is entered.
WhisperFullBegin(t) ==
    /\ ~crashed
    /\ pc[t] = "p_full"
    /\ inFull' = inFull + 1
    /\ usedCtx' = [usedCtx EXCEPT ![t] = g_ctx]
    /\ fullCalled' = [fullCalled EXCEPT ![t] = TRUE]
    /\ Goto(t, "p_infull")
    /\ UNCHANGED <<g_ctx, g_mutex, ctxState, crashed, badFree, prev, op, args,
                   pcm, elems, nRead, threads, hwSeen, fullRet, segs, made, entryCtx>>

\* whisper_full returns; if (ret != 0) return env->NewStringUTF("");
EngineRets == {0, -1}
\* Mutant: a failed transcription tears the context down.
WhisperFullEndFreesOnError(t) ==
    /\ ~crashed
    /\ pc[t] = "p_infull"
    /\ inFull' = inFull - 1
    /\ \E r \in EngineRets :
         /\ fullRet' = [fullRet EXCEPT ![t] = r]
         /\ IF r # 0
            THEN /\ ctxState' = IF g_ctx # 0 THEN WhisperFree(g_ctx) ELSE ctxState
                 /\ g_ctx' = 0
                 /\ Return(t, StrRet(<<>>))
            ELSE /\ UNCHANGED <<g_ctx, ctxState>>
                 /\ Goto(t, "p_collect")
    /\ UNCHANGED <<g_mutex, crashed, badFree, prev, op, args,
                   pcm, elems, nRead, threads, hwSeen, usedCtx, fullCalled,
                   segs, made, entryCtx>>

\* Mutant: the return code of whisper_full is not looked at.
WhisperFullEndIgnoresRet(t) ==
    /\ ~crashed
    /\ pc[t] = "p_infull"
    /\ inFull' = inFull - 1
    /\ \E r \in EngineRets :
         /\ fullRet' = [fullRet EXCEPT ![t] = r]
         /\ Goto(t, "p_collect")
    /\ UNCHANGED <<g_ctx, g_mutex, ctxState, crashed, badFree, prev, op, args,
                   pcm, elems, nRead, threads, hwSeen, usedCtx, fullCalled,
                   segs, made, entryCtx>>

WhisperFullEnd(t) ==
    /\ ~crashed
    /\ pc[t] = "p_infull"
    /\ inFull' = inFull - 1
    /\ \E r \in EngineRets :
         /\ fullRet' = [fullRet EXCEPT ![t] = r]
         /\ IF r # 0
            THEN Return(t, StrRet(<<>>))
            ELSE Goto(t, "p_collect")
    /\ UNCHANGED <<g_ctx, g_mutex, ctxState, crashed, badFree, prev, op, args,
                   pcm, elems, nRead, threads, hwSeen, usedCtx, fullCalled,
                   segs, made, entryCtx>>

\* n_segments = whisper_full_n_segments(g_ctx); the segment loop;
\* return env->NewStringUTF(result.c_str());
ProcessCollect(t, In) ==
    /\ ~crashed
    /\ pc[t] = "p_collect"
    /\ \E ss \in In.segLists :
         /\ segs' = [segs EXCEPT ![t] = ss]
         /\ Return(t, StrRet(CollectSegments(ss, 1, <<>>)))
    /\ UNCHANGED <<globals, op, args,
                   pcm, elems, nRead, threads, hwSeen, usedCtx, fullCalled, fullRet, made, entryCtx>>

\* ------------------------------------------------------------- return
\* The lock_guard is destroyed and the call returns to the managed caller.
Unlock(t) ==
    /\ ~crashed
    /\ pc[t] = "ret"
    /\ g_mutex' = 0
    /\ prev' = [op |-> op[t],
                path |-> jModelPath[t],
                ok |-> ret[t].b,
                made |-> made[t],
                beforeOp |-> prev.op,
                beforeOk |-> prev.ok]
    /\ pc' = [pc EXCEPT ![t] = "idle"]
    /\ op' = [op EXCEPT ![t] = "none"]
    /\ jModelPath' = [jModelPath EXCEPT ![t] = NullJString]
    /\ jPcm' = [jPcm EXCEPT ![t] = NullArray]
    /\ length' = [length EXCEPT ![t] = 0]
    /\ pcm' = [pcm EXCEPT ![t] = <<>>]
    /\ elems' = [elems EXCEPT ![t] = "none"]
    /\ nRead' = [nRead EXCEPT ![t] = 0]
    /\ threads' = [threads EXCEPT ![t] = 0]
    /\ hwSeen' = [hwSeen EXCEPT ![t] = Hw(0, 0)]
    /\ usedCtx' = [usedCtx EXCEPT ![t] = 0]
    /\ fullCalled' = [fullCalled EXCEPT ![t] = FALSE]
    /\ fullRet' = [fullRet EXCEPT ![t] = 0]
    /\ segs' = [segs EXCEPT ![t] = <<>>]
    /\ made' = [made EXCEPT ![t] = 0]
    /\ entryCtx' = [entryCtx EXCEPT ![t] = 0]
    /\ ret' = [ret EXCEPT ![t] = NoRet]
    /\ UNCHANGED <<g_ctx, ctxState, inFull, crashed, badFree>>

\* ------------------------------------------------------------- specification
\* Thread t takes g_mutex at the start of its call, its arguments from In.
LockStep(t, In) ==
    \/ InitLock(t, In)
    \/ ReleaseLock(t)
    \/ ProcessLock(t, In)

\* One step of thread t inside the body of its call, up to its return.
BodyStep(t, In) ==
    \/ InitFreeOld(t)
    \/ InitCheckNull(t)
    \/ InitCheckEmpty(t)
    \/ InitLoad(t)
    \/ ReleaseFree(t)
    \/ ProcessCheckCtx(t)
    \/ ProcessCheckArgs(t)
    \/ ProcessGetElements(t)
    \/ ProcessCopy(t)
    \/ ProcessCopyFault(t)
    \/ ProcessReleaseElements(t)
    \/ ProcessParams(t, In)
    \/ WhisperFullBegin(t)
    \/ WhisperFullEnd(t)
    \/ ProcessCollect(t, In)
    \/ Unlock(t)

\* One step of thread t, its inputs drawn from In.
Step(t, In) ==
    \/ \E o \in {"init", "process", "release"} : Call(t, o)
    \/ LockStep(t, In)
    \/ BodyStep(t, In)

\* Any number of managed threads call the bridge concurrently.
Next == \E t \in Threads : Step(t, ConcIn)

Spec == Init /\ [][Next]_vars

\* The concurrent specification under fair scheduling: a thread inside a
\* body keeps running and every engine and runtime call returns (weak
\* fairness of the body steps), and a thread that waits for g_mutex gets it
\* when it is free again and again (strong fairness of the lock step).
\* Nothing obliges a managed thread to call the bridge.
FairSpec ==
    /\ Spec
    /\ \A t \in Threads : WF_vars(BodyStep(t, ConcIn))
    /\ \A t \in Threads : SF_vars(LockStep(t, ConcIn))

\* A single managed thread calls the bridge, one call after the other.
NextSeq == Step(1, SeqIn)

SpecSeq == Init /\ [][NextSeq]_vars

\* ------------------------------------------------------------- properties
InBody(t) == pc[t] \notin {"idle", "lock"}
AtReturn(t, o) == pc[t] = "ret" /\ op[t] = o
EmptyString == StrRet(<<>>)
ValidPath(js) == ~js.null /\ js.utfOk /\ js.chars \in ValidModels

\* C1: at most one call is inside its body (between acquiring and releasing
\* g_mutex) at any time, it is the holder of g_mutex, and the number of
\* whisper_full invocations in progress never exceeds 1.
C1_MutualExclusion ==
    /\ Cardinality({t \in Threads : InBody(t)}) <= 1
    /\ \A t \in Threads : InBody(t) => g_mutex = t
    /\ inFull <= 1

\* One thread is inside whisper_full while another one waits for the lock.
C1_Witness ==
    \E t, u \in Threads : t # u /\ pc[t] = "p_infull" /\ pc[u] = "lock" /\ inFull = 1

\* C2: from the precondition check of nativeProcess until it returns, the
\* stored handle is the context found on entry, that context is live (fully
\* created, not freed), and it is the one whisper_full was called with.
C2_ProcessSeesWholeContext ==
    \A t \in Threads :
        /\ pc[t] \in {"p_args", "p_get", "p_copy", "p_release", "p_params",
                      "p_full", "p_infull", "p_collect"}
             => /\ g_ctx # 0
                /\ g_ctx = entryCtx[t]
                /\ ctxState[g_ctx] = "live"
        /\ fullCalled[t]
             => /\ usedCtx[t] # 0
                /\ usedCtx[t] = g_ctx
                /\ ctxState[usedCtx[t]] = "live"

\* nativeProcess reads the segments while a nativeRelease or nativeInit call
\* of another thread waits for the lock.
C2_Witness ==
    \E t, u \in Threads :
        /\ t # u
        /\ pc[t] = "p_collect"
        /\ pc[u] = "lock" /\ op[u] \in {"release", "init"}

\* C3: at most one context is live, and g_ctx is non-null exactly when one
\* context is live and then is that context.
C3_SingleLiveContext ==
    /\ Cardinality(Live) <= 1
    /\ g_ctx = 0 <=> Live = {}
    /\ g_ctx # 0 => Live = {g_ctx}

\* A re-initialize has installed a second context.
C3_Witness ==
    \E t \in Threads :
        /\ AtReturn(t, "init")
        /\ entryCtx[t] # 0
        /\ g_ctx # 0 /\ g_ctx # entryCtx[t]

InitFails(js) ==
    \/ js.null
    \/ jstring_to_utf8(js) = ""
    \/ ~ModelLoads(jstring_to_utf8(js))

\* C4: a nativeInit that fails (null path, empty path, or the load failing)
\* returns false with no context installed; one that succeeds returns true
\* with the new handle installed; either way the context found on entry has
\* been freed.
C4_InitOutcome ==
    \A t \in Threads :
        AtReturn(t, "init") =>
            /\ entryCtx[t] # 0 => ctxState[entryCtx[t]] = "freed"
            /\ IF InitFails(jModelPath[t])
               THEN /\ ret[t] = BoolRet(FALSE)
                    /\ g_ctx = 0
                    /\ Live = {}
               ELSE /\ ret[t] = BoolRet(TRUE)
                    /\ made[t] # 0
                    /\ g_ctx = made[t]
                    /\ ctxState[made[t]] = "live"

\* A null path is refused while a context is installed.
C4_Witness ==
    \E t \in Threads :
        /\ AtReturn(t, "init")
        /\ jModelPath[t].null
        /\ entryCtx[t] # 0
        /\ ret[t] = BoolRet(FALSE)

PreconditionFails(t) ==
    \/ entryCtx[t] = 0
    \/ jPcm[t].null
    \/ length[t] <= 0
    \/ length[t] > Len(jPcm[t].a)

\* C5: a nativeProcess call whose preconditions fail (no context, null
\* array, count <= 0, or a count beyond the length of the array) returns
\* the empty string, and no call reads a sample behind the end of the array.
C5_PreconditionFailureIsEmpty ==
    \A t \in Threads :
        op[t] = "process" /\ InBody(t) =>
            /\ nRead[t] <= Len(jPcm[t].a)
            /\ pc[t] = "ret" /\ PreconditionFails(t) => ret[t] = EmptyString

Kept(ss) == SelectSeq(ss, LAMBDA x : ~x.null /\ x.s # <<>>)
RECURSIVE JoinWithSpace(_)
JoinWithSpace(ks) ==
    IF ks = <<>> THEN <<>>
    ELSE IF Len(ks) = 1 THEN ks[1].s
    ELSE ks[1].s \o <<" ">> \o JoinWithSpace(Tail(ks))

\* C6: the transcript is the non-null, non-empty segment texts, in order,
\* with exactly one space between consecutive kept texts and no separator
\* before the first or after the last (for a call whose preconditions hold;
\* the transcript is empty when the engine fails).
C6_TranscriptIsJoinOfKept ==
    \A t \in Threads :
        AtReturn(t, "process") /\ ~PreconditionFails(t)
            => ret[t] = StrRet(JoinWithSpace(Kept(segs[t])))

\* C7: a nativeProcess call that finds no context installed returns the
\* empty string without invoking whisper_full and leaves no context
\* installed; the call that follows a nativeRelease finds none installed.
C7_ProcessWithoutContext ==
    \A t \in Threads :
        /\ op[t] = "process" /\ InBody(t) /\ prev.op = "release"
             => entryCtx[t] = 0
        /\ op[t] = "process" /\ InBody(t) /\ entryCtx[t] = 0
             => /\ ~fullCalled[t]
                /\ g_ctx = 0
                /\ Live = {}
                /\ pc[t] \in {"p_ctx", "ret"}
                /\ pc[t] = "ret" => ret[t] = EmptyString

\* The sequence initialize (successful), release, process has run.
C7_Witness ==
    \E t \in Threads :
        /\ AtReturn(t, "process")
        /\ prev.op = "release"
        /\ prev.beforeOp = "init" /\ prev.beforeOk
        /\ ret[t] = EmptyString

\* C8: a nativeProcess call with a null array or count <= 0 never acquires
\* the array elements, never invokes whisper_full and returns the empty
\* string.
C8_BadArgsSkipEngine ==
    \A t \in Threads :
        op[t] = "process" /\ InBody(t) /\ (jPcm[t].null \/ length[t] <= 0)
            => /\ ~fullCalled[t]
               /\ elems[t] = "none"
               /\ pc[t] \in {"p_ctx", "p_args", "ret"}
               /\ pc[t] = "ret" => ret[t] = EmptyString

\* With a context installed, a call with a non-null array and count 0 has
\* returned.
C8_Witness ==
    \E t \in Threads :
        /\ AtReturn(t, "process")
        /\ entryCtx[t] # 0
        /\ ~jPcm[t].null /\ length[t] = 0
        /\ ret[t] = EmptyString

\* C9: when nativeInit is called twice in a row with the same valid model
\* path, both calls return true, the context of the first call has been
\* freed and the only live context is the one the second call created.
C9_InitTwice ==
    \A t \in Threads :
        /\ AtReturn(t, "init")
        /\ ValidPath(jModelPath[t])
        /\ prev.op = "init" /\ prev.path = jModelPath[t]
        => /\ prev.ok
           /\ ret[t] = BoolRet(TRUE)
           /\ prev.made # 0
           /\ made[t] # 0 /\ made[t] # prev.made
           /\ ctxState[prev.made] = "freed"
           /\ Live = {made[t]}
           /\ g_ctx = made[t]

\* The second of two nativeInit calls with the same valid path has returned.
C9_Witness ==
    \E t \in Threads :
        /\ AtReturn(t, "init")
        /\ ValidPath(jModelPath[t])
        /\ prev.op = "init" /\ prev.path = jModelPath[t]
        /\ entryCtx[t] = prev.made
        /\ g_ctx = made[t]

\* What a call that has reached its return did to the stored handle.
CallTransitionOK(t) ==
    LET before == entryCtx[t]
        after == g_ctx
    IN  /\ before = 0 /\ after # 0
            => op[t] = "init" /\ ret[t] = BoolRet(TRUE)
        /\ before # 0 /\ after = 0
            => op[t] = "release" \/ (op[t] = "init" /\ ret[t] = BoolRet(FALSE))
        /\ before # 0 /\ after # 0 /\ after # before
            => op[t] = "init" /\ ret[t] = BoolRet(TRUE)
        /\ op[t] = "process" => after = before
        /\ op[t] = "init" /\ ret[t] = BoolRet(TRUE) => after # 0 /\ after # before
        /\ op[t] = "release" => after = 0

\* The statements that may change the stored handle or a context.
HandleStepOK ==
    (g_ctx' # g_ctx \/ ctxState' # ctxState) =>
        \E t \in Threads :
            /\ g_mutex = t
            /\ pc'[t] # pc[t]
            /\ \/ op[t] = "release" /\ pc[t] = "r_free" /\ g_ctx # 0 /\ g_ctx' = 0
               \/ op[t] = "init" /\ pc[t] = "i_free" /\ g_ctx # 0 /\ g_ctx' = 0
               \/ op[t] = "init" /\ pc[t] = "i_load" /\ g_ctx = 0 /\ g_ctx' # 0
                    /\ ret'[t] = BoolRet(TRUE)

\* C10: a call changes the state of the singleton only by the listed
\* transitions (Uninitialized to Initialized by a successful nativeInit,
\* Initialized to Uninitialized by nativeRelease or a failed nativeInit,
\* Initialized to Initialized with a new handle by a successful nativeInit),
\* and no step of nativeProcess changes the stored handle or any context.
C10_OnlyListedTransitions ==
    /\ [](\A t \in Threads : pc[t] = "ret" => CallTransitionOK(t))
    /\ [][HandleStepOK]_vars

\* A transcription that went through the engine has returned and the
\* handle is the one found on entry.
C10_Witness ==
    \E t \in Threads :
        /\ AtReturn(t, "process")
        /\ fullCalled[t]
        /\ entryCtx[t] # 0 /\ g_ctx = entryCtx[t]

\* What a nativeRelease call that has reached its return has done.
ReleaseOutcomeOK(t) ==
    /\ g_ctx = 0
    /\ Live = {}
    /\ entryCtx[t] # 0 => ctxState[entryCtx[t]] = "freed"
    /\ prev.op = "release" => entryCtx[t] = 0

\* The step of nativeRelease that finds no context frees nothing.
ReleaseNoopOK ==
    \A t \in Threads :
        pc[t] = "r_free" /\ pc'[t] = "ret" /\ g_ctx = 0
            => g_ctx' = 0 /\ ctxState' = ctxState

\* C11: nativeRelease with a context installed frees it and clears the
\* stored handle; with none installed it frees nothing and changes nothing;
\* so a nativeRelease that follows a nativeRelease finds no context and
\* leaves the state of the first.
C11_ReleaseIdempotent ==
    /\ [](\A t \in Threads : AtReturn(t, "release") => ReleaseOutcomeOK(t))
    /\ [][ReleaseNoopOK]_vars

\* The sequence initialize (successful), release, release has run.
C11_Witness ==
    \E t \in Threads :
        /\ AtReturn(t, "release")
        /\ prev.op = "release"
        /\ prev.beforeOp = "init" /\ prev.beforeOk
        /\ entryCtx[t] = 0 /\ g_ctx = 0

\* whisper_full has returned in the call of thread t.
EngineReturned(t) == fullCalled[t] /\ pc[t] \in {"p_collect", "ret"}
HasNonEmptySegment(ss) == \E i \in 1..Len(ss) : ~ss[i].null /\ ss[i].s # <<>>

\* C12: for a call with a context and a valid sample buffer, the result is
\* non-empty when whisper_full succeeds and the engine hands out at least one
\* non-empty segment, empty when it hands out 0 segments, and empty when
\* whisper_full fails, in which case no segment is read.
C12_ResultFollowsEngine ==
    \A t \in Threads :
        /\ op[t] = "process" /\ ~PreconditionFails(t) /\ EngineReturned(t)
               /\ fullRet[t] # 0
             => /\ pc[t] = "ret"
                /\ segs[t] = <<>>
                /\ ret[t] = EmptyString
        /\ AtReturn(t, "process") /\ ~PreconditionFails(t) /\ fullCalled[t]
               /\ fullRet[t] = 0
             => /\ HasNonEmptySegment(segs[t]) => ret[t].kind = "str" /\ ret[t].s # <<>>
                /\ segs[t] = <<>> => ret[t] = EmptyString

\* The engine succeeded with two segments, the second one non-empty.
C12_Witness ==
    \E t \in Threads :
        /\ AtReturn(t, "process")
        /\ ~PreconditionFails(t)
        /\ fullCalled[t] /\ fullRet[t] = 0
        /\ Len(segs[t]) = 2 /\ segs[t][2] = Text(<<"b">>)
        /\ ret[t].s # <<>>

\* h clamped to [2, 4] as an unsigned value, 2 when h is 0.
ClampedUnsigned(h) ==
    IF h.top = 1 THEN 4
    ELSE IF h.low = 0 THEN 2
    ELSE IF h.low < 2 THEN 2
    ELSE IF h.low > 4 THEN 4
    ELSE h.low

\* C13: for every unsigned 32-bit hardware concurrency h the thread count
\* is 2 when h is 0 and otherwise h clamped to [2, 4], also for h >= 2^31.
C13_ThreadsClamped ==
    \A t \in Threads :
        threads[t] # 0 => threads[t] = ClampedUnsigned(hwSeen[t])

\* C14: under fair scheduling every call that has been made, waiting for
\* g_mutex or inside its body, eventually returns with the lock released.
C14_EveryCallCompletes ==
    \A t \in Threads : (pc[t] # "idle") ~> (pc[t] = "idle" /\ g_mutex # t)

\* Where a call stands, given what it holds of the caller's array.
BorrowOK(t) ==
    /\ elems[t] = "held" => pc[t] \in {"p_copy", "p_release"}
    /\ pc[t] \in {"p_params", "p_full", "p_infull", "p_collect"}
         => elems[t] = "released"
    /\ fullCalled[t] => elems[t] = "released"
    /\ pc[t] = "ret" => elems[t] \in {"none", "released"}
    /\ pc[t] \in {"idle", "lock"} => elems[t] = "none"

\* The elements are acquired once, released once after that, and the
\* caller's array keeps its contents throughout the call.
BorrowStepOK ==
    \A t \in Threads :
        /\ elems'[t] # elems[t] =>
             \/ elems[t] = "none" /\ elems'[t] = "held" /\ pc[t] = "p_get"
             \/ elems[t] = "held" /\ elems'[t] = "released" /\ pc[t] = "p_release"
             \/ elems'[t] = "none" /\ pc[t] = "ret" /\ pc'[t] = "idle"
        /\ InBody(t) /\ pc'[t] # "idle" => jPcm'[t] = jPcm[t]

\* C15: the array elements nativeProcess acquires are released exactly
\* once, before whisper_full is invoked and before the call returns, the
\* caller's array is not written, and nothing is held after the return.
C15_BufferOnlyBorrowed ==
    /\ [](\A t \in Threads : BorrowOK(t))
    /\ [][BorrowStepOK]_vars

\* A call that acquired the elements and went through the engine returns.
C15_Witness ==
    \E t \in Threads :
        /\ AtReturn(t, "process")
        /\ fullCalled[t]
        /\ elems[t] = "released"
        /\ Len(jPcm[t].a) = 2 /\ length[t] = 2

\* The float f is exactly s / 32768, and lies in [-1, 1).
IsSampleOver32768(f, s) ==
    /\ f.e = -15
    /\ f.m = s
    /\ -32768 <= f.m /\ f.m < 32768

\* C16: for a call that passes its preconditions, the buffer handed to
\* whisper_full has exactly count elements and element i is sample i divided
\* by 32768, a value in [-1, 1).
C16_SamplesScaled ==
    \A t \in Threads :
        fullCalled[t] /\ ~PreconditionFails(t)
            => /\ Len(pcm[t]) = length[t]
               /\ \A i \in 1..length[t] : IsSampleOver32768(pcm[t][i], jPcm[t].a[i])

\* 32767 and -32768 have been handed to the engine as 32767/32768 and -1.
C16_Witness ==
    \E t \in Threads :
        /\ fullCalled[t]
        /\ jPcm[t].a = <<32767, -32768>> /\ length[t] = 2
        /\ pcm[t] = <<Float(32767, -15), Float(-32768, -15)>>

Freed == {c \in CtxIds : ctxState[c] = "freed"}

\* C17: whisper_free is never called with a null handle or with a context
\* that is not live, so no context is freed twice, and the stored handle
\* never refers to a freed context.
C17_NoDoubleFree ==
    /\ ~badFree
    /\ g_ctx # 0 => ctxState[g_ctx] = "live"

\* A nativeRelease has freed a context after a nativeInit freed another.
C17_Witness ==
    \E t \in Threads :
        /\ AtReturn(t, "release")
        /\ entryCtx[t] \in Freed
        /\ Freed \ {entryCtx[t]} # {}
        /\ ~badFree

====
